---- MODULE Spec2Model ----
(***************************************************************************)
(* react-native-map-link, src/index.js: the provider registry, the         *)
(* availability probe (isAppInstalled), the choice prompt (askAppChoice)   *)
(* and the deep-link launcher (showLocation), as one state machine.        *)
(*                                                                         *)
(* JavaScript values are records [t, v]: t is the value's type and v the   *)
(* string that String(value) yields.  JavaScript strings are TLA+ strings, *)
(* so that a URL of the model is the very text the code hands to           *)
(* Linking.openURL.  An object is a record with t = "object" and one field *)
(* per key the code reads; a key the object lacks holds Absent.            *)
(***************************************************************************)
EXTENDS Integers, Sequences, FiniteSets, TLC

(***************************************************************************)
(* Bounds of the model.                                                    *)
(***************************************************************************)
\* how many capability probes of one run the host may answer truthy
MaxInstalled == 3
\* how many callbacks of one prompt the host may deliver
MaxCallbacks == 2

(***************************************************************************)
(* JavaScript values.                                                      *)
(***************************************************************************)
Undefined == [t |-> "undefined", v |-> "undefined"]
Null == [t |-> "null", v |-> "null"]
Absent == [t |-> "absent", v |-> ""]
Str(s) == [t |-> "string", v |-> s]
Num(s) == [t |-> "number", v |-> s]
NaN == Num("NaN")
Bool(b) == [t |-> "boolean", v |-> IF b THEN "true" ELSE "false"]
Obj(lat, lng, addr, ttl, a) ==
  [t |-> "object", v |-> "[object Object]", latitude |-> lat, longitude |-> lng,
   address |-> addr, title |-> ttl, app |-> a]

\* ToBoolean: what `!x`, `x && y`, `x || y` and `if (x)` test
Truthy(x) ==
  CASE x.t = "string" -> x.v # ""
    [] x.t = "number" -> x.v \notin {"0", "NaN"}
    [] x.t = "boolean" -> x.v = "true"
    [] x.t \in {"undefined", "null", "absent"} -> FALSE
    [] OTHER -> TRUE

\* typeof x
TypeOf(x) == IF x.t = "null" THEN "object" ELSE x.t

\* `key in options` and `options.key`, for a field f of an object
Has(f) == f.t # "absent"
Get(f) == IF Has(f) THEN f ELSE Undefined

\* x.length: the length of a string, undefined on the other values read here
RECURSIVE Decimal(_)
Decimal(n) ==
  IF n < 10 THEN SubSeq("0123456789", n + 1, n + 1)
  ELSE Decimal(n \div 10) \o SubSeq("0123456789", (n % 10) + 1, (n % 10) + 1)
Length(x) == IF x.t = "string" THEN Num(Decimal(Len(x.v))) ELSE Undefined

(***************************************************************************)
(* The registry.                                                           *)
(***************************************************************************)
apps ==
  <<"apple-maps", "google-maps", "citymapper", "uber", "lyft", "navigon",
    "transit", "waze", "yandex", "moovit">>

\* the own keys of `prefixes`, in insertion order: what `for (app in prefixes)`
\* visits (no key is an array index, and nothing enumerable is inherited)
PrefixKeys == apps

\* `prefixes` is an object literal, so `in` and [] also find what it
\* inherits from Object.prototype; these are the inherited names the model's
\* inputs use, each holding a function
ObjectPrototypeKeys == {"toString", "constructor"}
Function(name) == [t |-> "function", v |-> "function " \o name \o "() { [native code] }"]

OwnPrefix(app, isIOS) ==
  CASE app = "apple-maps" -> IF isIOS THEN "http://maps.apple.com/" ELSE "applemaps://"
    [] app = "google-maps" -> IF isIOS THEN "comgooglemaps://" ELSE "https://maps.google.com/"
    [] app = "citymapper" -> "citymapper://"
    [] app = "uber" -> "uber://"
    [] app = "lyft" -> "lyft://"
    [] app = "navigon" -> "navigon://"
    [] app = "transit" -> "transit://"
    [] app = "waze" -> "waze://"
    [] app = "yandex" -> "yandexnavi://"
    [] app = "moovit" -> "moovit://"

Range(s) == {s[i] : i \in 1..Len(s)}

\* `app in prefixes`
InPrefixes(app) == app \in Range(PrefixKeys) \cup ObjectPrototypeKeys

\* prefixes[app], as a value
Prefix(app, isIOS) ==
  IF app \in Range(PrefixKeys) THEN Str(OwnPrefix(app, isIOS))
  ELSE IF app \in ObjectPrototypeKeys THEN Function(app)
  ELSE Undefined

titles(app) ==
  CASE app = "apple-maps" -> "Apple Maps"
    [] app = "google-maps" -> "Google Maps"
    [] app = "citymapper" -> "Citymapper"
    [] app = "uber" -> "Uber"
    [] app = "lyft" -> "Lyft"
    [] app = "navigon" -> "Navigon"
    [] app = "transit" -> "The Transit App"
    [] app = "waze" -> "Waze"
    [] app = "yandex" -> "Yandex.Navi"
    [] app = "moovit" -> "Moovit"

NotInPrefixes(x) == ~InPrefixes(x.v)

\* apps.indexOf(x) < 0: indexOf compares with ===, so only a string can be found
NotInApps(x) == ~(x.t = "string" /\ x.v \in Range(apps))

(***************************************************************************)
(* parseFloat and the Number-to-String conversion of `'' + number`.        *)
(* A number is held as the text Number::toString gives it.  The texts the  *)
(* model parses hold no exponent, no "Infinity" and fewer than 21 digits,  *)
(* so parsing is: skip white space, an optional sign, digits, an optional  *)
(* point and digits; and the result prints in plain decimal notation.      *)
(***************************************************************************)
IsDigit(c) == c \in {"0", "1", "2", "3", "4", "5", "6", "7", "8", "9"}

RECURSIVE TrimStart(_)
TrimStart(s) == IF s # "" /\ Head(s) = " " THEN TrimStart(Tail(s)) ELSE s

RECURSIVE DigitsPrefix(_)
DigitsPrefix(s) ==
  IF s # "" /\ IsDigit(Head(s)) THEN Head(s) \o DigitsPrefix(Tail(s)) ELSE ""

RECURSIVE StripLeadingZeros(_)
StripLeadingZeros(s) ==
  IF Len(s) > 1 /\ Head(s) = "0" THEN StripLeadingZeros(Tail(s)) ELSE s

RECURSIVE StripTrailingZeros(_)
StripTrailingZeros(s) ==
  IF s # "" /\ SubSeq(s, Len(s), Len(s)) = "0"
  THEN StripTrailingZeros(SubSeq(s, 1, Len(s) - 1)) ELSE s

ParseFloatString(text) ==
  LET s == TrimStart(text)
      signed == s # "" /\ Head(s) \in {"-", "+"}
      neg == s # "" /\ Head(s) = "-"
      body == IF signed THEN Tail(s) ELSE s
      int == DigitsPrefix(body)
      rest == SubSeq(body, Len(int) + 1, Len(body))
      frac == IF rest # "" /\ Head(rest) = "." THEN DigitsPrefix(Tail(rest)) ELSE ""
      i == StripLeadingZeros(IF int = "" THEN "0" ELSE int)
      f == StripTrailingZeros(frac)
      zero == i = "0" /\ f = ""
  IN IF int = "" /\ frac = "" THEN NaN
     ELSE Num((IF neg /\ ~zero THEN "-" ELSE "") \o i \o (IF f = "" THEN "" ELSE "." \o f))

\* parseFloat(x): x is converted to a string first
parseFloat(x) == ParseFloatString(x.v)

(***************************************************************************)
(* encodeURIComponent.  LoneSurrogate stands for an unpaired UTF-16        *)
(* surrogate (U+D800), which a TLA+ string cannot hold; the texts of the   *)
(* model use the number sign for nothing else.                             *)
(***************************************************************************)
LoneSurrogate == "#"

Unreserved ==
  {SubSeq("ABCDEFGHIJKLMNOPQRSTUVWXYZabcdefghijklmnopqrstuvwxyz0123456789-_.!~*'()", i, i) :
     i \in 1..71}

EncodeChar(c) ==
  CASE c \in Unreserved -> c
    [] c = " " -> "%20"
    [] c = "$" -> "%24"
    [] c = "%" -> "%25"
    [] c = "&" -> "%26"
    [] c = "+" -> "%2B"
    [] c = "," -> "%2C"
    [] c = "/" -> "%2F"
    [] c = ":" -> "%3A"
    [] c = ";" -> "%3B"
    [] c = "=" -> "%3D"
    [] c = "?" -> "%3F"
    [] c = "@" -> "%40"

\* encodeURIComponent throws URIError on a lone surrogate
EncodeThrows(s) == \E i \in 1..Len(s) : SubSeq(s, i, i) = LoneSurrogate

RECURSIVE encodeURIComponent(_)
encodeURIComponent(s) ==
  IF s = "" THEN "" ELSE EncodeChar(Head(s)) \o encodeURIComponent(Tail(s))

(***************************************************************************)
(* showLocation: validation, normalisation and formatting.                 *)
(***************************************************************************)
MapsException(message) == [t |-> "MapsException", v |-> message]
URIError == [t |-> "URIError", v |-> "URI malformed"]
NoException == [t |-> "none", v |-> ""]

\* the messages of the source, its grave accents written as apostrophes (a
\* TLA+ string cannot hold a grave accent)
MsgOptions == "First parameter of 'showLocation' should contain object with options."
MsgLatLng ==
  "First parameter of 'showLocation' should contain object with at least keys 'latitude' and 'longitude'."
MsgAddress == "Option 'address' should be of type 'string'."
MsgTitle == "Option 'title' should be of type 'string'."

\* list.join(sep)
RECURSIVE Join(_, _)
Join(list, sep) ==
  IF list = <<>> THEN ""
  ELSE IF Len(list) = 1 THEN list[1]
  ELSE list[1] \o sep \o Join(Tail(list), sep)

MsgApp ==
  "Option 'app' should be undefined, null, or one of the following: \""
    \o Join(apps, "\", \"") \o "\"."

ValidateTitleFirst(options) ==
  IF ~Truthy(options) \/ TypeOf(options) # "object"
    THEN MapsException(MsgOptions)
  ELSE IF ~Has(options.latitude) \/ ~Has(options.longitude)
    THEN MapsException(MsgLatLng)
  ELSE IF Has(options.title) /\ Truthy(options.title)
            /\ TypeOf(options.title) # "string"
    THEN MapsException(MsgTitle)
  ELSE IF Has(options.address) /\ Truthy(options.address)
            /\ TypeOf(options.address) # "string"
    THEN MapsException(MsgAddress)
  ELSE IF Has(options.app) /\ Truthy(options.app) /\ NotInApps(options.app)
    THEN MapsException(MsgApp)
  ELSE NoException

\* the five checks of showLocation, in the order of the code: the exception
\* the first failing one throws, NoException when all pass
Validate(options) ==
  IF ~Truthy(options) \/ TypeOf(options) # "object"
    THEN MapsException(MsgOptions)
  ELSE IF ~Has(options.latitude) \/ ~Has(options.longitude)
    THEN MapsException(MsgLatLng)
  ELSE IF Has(options.address) /\ Truthy(options.address)
            /\ TypeOf(options.address) # "string"
    THEN MapsException(MsgAddress)
  ELSE IF Has(options.title) /\ Truthy(options.title)
            /\ TypeOf(options.title) # "string"
    THEN MapsException(MsgTitle)
  ELSE IF Has(options.app) /\ Truthy(options.app) /\ NotInApps(options.app)
    THEN MapsException(MsgApp)
  ELSE NoException

\* `x && x.length ? x : null`
OrNull(f) == IF Truthy(Get(f)) /\ Truthy(Length(Get(f))) THEN Get(f) ELSE Null

\* `a || b`
Or(a, b) == IF Truthy(a) THEN a ELSE b

\* does building the URL call encodeURIComponent on a text it throws on
FormatThrows(app, title, address, isIOS) ==
  CASE app = Str("apple-maps") ->
         EncodeThrows(Or(title, Str("Location")).v) \/ EncodeThrows(Or(address, Str("")).v)
    [] app = Str("google-maps") ->
         isIOS /\ EncodeThrows(Or(Or(address, title), Str("Location")).v)
    [] app \in {Str("citymapper"), Str("uber"), Str("moovit")} ->
         Truthy(title) /\ EncodeThrows(title.v)
    [] OTHER -> FALSE

\* the cases of the switch of showLocation, one operator each
AppleMapsUrl(lat, lng, title, address, isIOS) ==
  OwnPrefix("apple-maps", isIOS) \o "?ll=" \o lat.v \o "," \o lng.v
    \o "&q=" \o encodeURIComponent(Or(title, Str("Location")).v)
    \o "&address=" \o encodeURIComponent(Or(address, Str("")).v)

GoogleMapsUrl(lat, lng, title, address, isIOS) ==
  OwnPrefix("google-maps", isIOS)
    \o (IF isIOS
        THEN "?api=1&ll=" \o lat.v \o "," \o lng.v \o "&q="
               \o encodeURIComponent(Or(Or(address, title), Str("Location")).v)
        ELSE "?q=" \o lat.v \o "," \o lng.v)

CitymapperUrl(lat, lng, title, isIOS) ==
  OwnPrefix("citymapper", isIOS) \o "directions?endcoord=" \o lat.v \o "," \o lng.v
    \o (IF Truthy(title) THEN "&endname=" \o encodeURIComponent(title.v) ELSE "")

UberUrlWithEquals(lat, lng, title, isIOS) ==
  OwnPrefix("uber", isIOS)
    \o "?action=setPickup&pickup=my_location&dropoff[latitude]=" \o lat.v
    \o "&dropoff[longitude]=" \o lng.v
    \o (IF Truthy(title) THEN "&dropoff[nickname]=" \o encodeURIComponent(title.v) ELSE "")

UberUrl(lat, lng, title, isIOS) ==
  OwnPrefix("uber", isIOS)
    \o "?action=setPickup&pickup=my_location&dropoff[latitude]=" \o lat.v
    \o "&dropoff[longitude]" \o lng.v
    \o (IF Truthy(title) THEN "&dropoff[nickname]=" \o encodeURIComponent(title.v) ELSE "")

LyftUrl(lat, lng, isIOS) ==
  OwnPrefix("lyft", isIOS) \o "ridetype?id=lyft&destination[latitude]=" \o lat.v
    \o "&destination[longitude]=" \o lng.v

TransitUrl(lat, lng, isIOS) ==
  OwnPrefix("transit", isIOS) \o "directions?to=" \o lat.v \o "," \o lng.v

WazeUrl(lat, lng, isIOS) ==
  OwnPrefix("waze", isIOS) \o "?ll=" \o lat.v \o "," \o lng.v \o "&navigate=yes"

YandexUrl(lat, lng, isIOS) ==
  OwnPrefix("yandex", isIOS) \o "build_route_on_map?lat_to=" \o lat.v
    \o "&lon_to=" \o lng.v

MoovitUrl(lat, lng, title, isIOS) ==
  OwnPrefix("moovit", isIOS) \o "directions?dest_lat=" \o lat.v \o "&dest_lon" \o lng.v
    \o (IF Truthy(title) THEN "&dest_name=" \o encodeURIComponent(title.v) ELSE "")

DefaultUrlIsPrefix(app, isIOS) ==
  IF app.t = "string" /\ app.v \in Range(apps) THEN Str(OwnPrefix(app.v, isIOS)) ELSE Null

\* `let url = null`: what url holds when no case of the switch matches app
DefaultUrl(app, isIOS) == Null

\* the switch of showLocation: the URL for app (case labels match with ===)
Url(app, lat, lng, title, address, isIOS) ==
  CASE app = Str("apple-maps") -> Str(AppleMapsUrl(lat, lng, title, address, isIOS))
    [] app = Str("google-maps") -> Str(GoogleMapsUrl(lat, lng, title, address, isIOS))
    [] app = Str("citymapper") -> Str(CitymapperUrl(lat, lng, title, isIOS))
    [] app = Str("uber") -> Str(UberUrl(lat, lng, title, isIOS))
    [] app = Str("lyft") -> Str(LyftUrl(lat, lng, isIOS))
    [] app = Str("transit") -> Str(TransitUrl(lat, lng, isIOS))
    [] app = Str("waze") -> Str(WazeUrl(lat, lng, isIOS))
    [] app = Str("yandex") -> Str(YandexUrl(lat, lng, isIOS))
    [] app = Str("moovit") -> Str(MoovitUrl(lat, lng, title, isIOS))
    [] OTHER -> DefaultUrl(app, isIOS)

(***************************************************************************)
(* Promises and the host's answers.                                        *)
(***************************************************************************)
NoPromise == [state |-> "none", value |-> Undefined]
Pending == [state |-> "pending", value |-> Undefined]
Resolved(v) == [state |-> "resolved", value |-> v]
Rejected(e) == [state |-> "rejected", value |-> e]

ResolveOverwrites(p, v) ==
  IF p.state \in {"pending", "resolved"} THEN Resolved(v) ELSE p

\* resolve(v) of a promise executor: only a pending promise is settled by it
Resolve(p, v) == IF p.state = "pending" THEN Resolved(v) ELSE p

Error(message) == [t |-> "Error", v |-> message]

\* what Linking.canOpenURL's promise may settle with
ProbeOutcomes ==
  [kind : {"resolve"}, value : {Bool(TRUE), Bool(FALSE), Num("1"), Undefined}]
    \cup [kind : {"reject"}, value : {Error("canOpenURL failed")}]

\* what Linking.openURL's promise may settle with
LaunchOutcomes ==
  [kind : {"resolve"}, value : {Undefined, Bool(TRUE)}]
    \cup [kind : {"reject"},
          value : {Error("Unable to open URL"), Error("No Activity found to handle Intent")}]

\* a promise of the host, settled with outcome
Settled(outcome) ==
  [state |-> IF outcome.kind = "resolve" THEN "resolved" ELSE "rejected",
   value |-> outcome.value]

IsInstalledResultCatchTrue(outcome) ==
  IF outcome.kind = "resolve" THEN Bool(Truthy(outcome.value)) ELSE Bool(TRUE)

\* isAppInstalled's handlers on the probe: then(result => resolve(!!result)),
\* catch(() => resolve(false))
IsInstalledResult(outcome) ==
  IF outcome.kind = "resolve" THEN Bool(Truthy(outcome.value)) ELSE Bool(FALSE)

LaunchResultWrapped(p) ==
  IF p.state = "rejected" THEN Rejected(MapsException(p.value.v)) ELSE p

\* `return Linking.openURL(url)` in an async function: showLocation's promise
\* takes the state and the value of the promise p that openURL returned
LaunchResult(p) == p

(***************************************************************************)
(* askAppChoice: the decision after probing, and the prompt.               *)
(***************************************************************************)
DefaultTitle == "Open in Maps"
DefaultMessage == "What app would you like to use?"

NeedsPromptFromOne(available) == ~(Len(available) < 1)

\* availableApps.length < 2 is false: a prompt is shown
NeedsPrompt(available) == ~(Len(available) < 2)

\* availableApps[0] || null
FirstOrNull(available) ==
  Or(IF Len(available) > 0 THEN Str(available[1]) ELSE Undefined, Null)

\* availableApps.map((app) => titles[app])
Titles(available) == [i \in 1..Len(available) |-> titles(available[i])]

\* what the onPress closures of availableApps.map(...) resolve, button by button
OnPressValues(available) == [i \in 1..Len(available) |-> Str(available[i])]

\* the arguments of ActionSheetIOS.showActionSheetWithOptions: options are the
\* titles and 'Cancel'; values is empty, the callback works by index
ActionSheet(ttl, message, available) ==
  LET options == Append(Titles(available), "Cancel")
  IN [kind |-> "actionSheet", title |-> ttl, message |-> message, options |-> options,
      cancelButtonIndex |-> Len(options) - 1, values |-> <<>>, onDismiss |-> FALSE]

\* the arguments of Alert.alert: one button per app and Cancel; values[i] is
\* what button i's onPress resolves; the last button has style 'cancel'
AlertDialog(ttl, message, available) ==
  LET options == Append(Titles(available), "Cancel")
  IN [kind |-> "alert", title |-> ttl, message |-> message, options |-> options,
      cancelButtonIndex |-> Len(options) - 1,
      values |-> Append(OnPressValues(available), Null), onDismiss |-> TRUE]

SheetChoiceNoCancel(buttonIndex, options, available) ==
  IF buttonIndex < Len(available) THEN Str(available[buttonIndex + 1]) ELSE Undefined

\* the action sheet's callback, buttonIndex counted from 0
SheetChoice(buttonIndex, options, available) ==
  IF buttonIndex = Len(options) - 1 THEN Null ELSE Str(available[buttonIndex + 1])

\* the button's onPress of the alert, buttons counted from 1
AlertChoice(button, values) == values[button]

(***************************************************************************)
(* Inputs.                                                                 *)
(***************************************************************************)
\* arguments of isAppInstalled
Ids ==
  {Str(apps[i]) : i \in 1..Len(apps)}
    \cup {Str("bogus-app"), Str("toString"), Str("constructor"), Undefined}

\* arguments of askAppChoice: the defaults, or the caller's own texts
PromptTexts ==
  {[title |-> DefaultTitle, message |-> DefaultMessage],
   [title |-> "Navigate", message |-> "Pick an app"]}

NonObjects == {Undefined, Null, Str("40.7,-74"), Num("0"), Num("5"), Bool(TRUE)}

ExplicitApps ==
  {Str(apps[i]) : i \in 1..Len(apps)} \cup {Str("bogus-app"), Str("toString"), Num("5")}

\* requests naming an app (registered or not)
ExplicitRequests ==
  {Obj(la, ln, ad, ti, a) :
     la \in {Absent, Num("40.7"), Str(" 1.50"), Str("x")},
     ln \in {Absent, Num("-74"), Str("2")},
     ad \in {Absent, Null, Str(""), Str("1 Main St"), Num("5"), Num("0")},
     ti \in {Absent, Null, Str(""), Str("Home"), Str("A&B" \o LoneSurrogate), Num("5")},
     a \in ExplicitApps}

\* requests leaving the choice of the app to askAppChoice
ChoiceRequests ==
  {Obj(la, ln, ad, ti, a) :
     la \in {Absent, Num("40.7")},
     ln \in {Num("-74")},
     ad \in {Absent, Num("5")},
     ti \in {Str("Home"), Str("A&B" \o LoneSurrogate), Bool(TRUE)},
     a \in {Absent, Null, Str("")}}

Requests == NonObjects \cup ExplicitRequests \cup ChoiceRequests

(***************************************************************************)
(* State.                                                                  *)
(***************************************************************************)
VARIABLES
  isIOS,          \* Platform.OS === 'ios', fixed when the module is loaded
  call,           \* the exported function that was called, "none" before
  pc,             \* where the call stands: idle, probing, prompting, launching, done
  id,             \* isAppInstalled's argument
  promptArgs,     \* askAppChoice's arguments
  options,        \* showLocation's argument
  lat, lng, address, title, app,   \* showLocation's locals
  availableApps,  \* askAppChoice's list
  next,           \* the position in PrefixKeys of the key the for-in loop is at
  installed,      \* the promise of the isAppInstalled call in progress
  choice,         \* askAppChoice's promise
  result,         \* showLocation's promise
  pendingProbes,  \* arguments of the Linking.canOpenURL calls not yet settled
  probeLog,       \* arguments of all Linking.canOpenURL calls, in order
  probeTruthy,    \* arguments of the Linking.canOpenURL calls that resolved truthy
  prompts,        \* the action sheets and alerts presented, in order
  nCallbacks,     \* how many callbacks of the prompt the host has delivered
  firstAction,    \* the first of them
  launches,       \* arguments of the Linking.openURL calls, in order
  launch          \* the promise Linking.openURL returned

vars ==
  <<isIOS, call, pc, id, promptArgs, options, lat, lng, address, title, app,
    availableApps, next, installed, choice, result, pendingProbes, probeLog,
    probeTruthy, prompts, nCallbacks, firstAction, launches, launch>>

NoAction == [kind |-> "none", index |-> 0]

Init ==
  /\ isIOS \in BOOLEAN
  /\ call = "none"
  /\ pc = "idle"
  /\ id = Undefined
  /\ promptArgs = [title |-> "", message |-> ""]
  /\ options = Undefined
  /\ lat = Undefined /\ lng = Undefined /\ address = Undefined
  /\ title = Undefined /\ app = Undefined
  /\ availableApps = <<>>
  /\ next = 0
  /\ installed = NoPromise /\ choice = NoPromise /\ result = NoPromise
  /\ pendingProbes = {} /\ probeLog = <<>> /\ probeTruthy = {}
  /\ prompts = <<>> /\ nCallbacks = 0 /\ firstAction = NoAction
  /\ launches = <<>> /\ launch = NoPromise

(***************************************************************************)
(* Steps shared by the operations.  Each operation below runs from the     *)
(* event that starts or resumes it to the point where it waits on the host *)
(* (a probe, the prompt, the launch) or ends.                              *)
(***************************************************************************)

\* isAppInstalled(x), up to the call of the probe
IsAppInstalled(x) ==
  IF ~InPrefixes(x.v)
  THEN /\ installed' = Resolved(Bool(FALSE))
       /\ UNCHANGED <<pendingProbes, probeLog>>
  ELSE /\ installed' = Pending
       /\ pendingProbes' = pendingProbes \cup {Prefix(x.v, isIOS)}
       /\ probeLog' = Append(probeLog, Prefix(x.v, isIOS))

\* showLocation from the switch on: format the URL for a and launch it
FormatAndLaunch(a, la, ln, ti, ad) ==
  /\ app' = a
  /\ IF FormatThrows(a, ti, ad, isIOS)
     THEN /\ result' = Rejected(URIError)
          /\ pc' = "done"
          /\ UNCHANGED <<launches, launch>>
     ELSE LET url == Url(a, la, ln, ti, ad, isIOS)
          IN IF Truthy(url)
             THEN /\ launches' = Append(launches, url)
                  /\ launch' = Pending
                  /\ pc' = "launching"
                  /\ result' = Pending
             ELSE /\ result' = Resolved(Undefined)
                  /\ pc' = "done"
                  /\ UNCHANGED <<launches, launch>>

\* resolve(v) in askAppChoice, and what waits on its promise: showLocation's
\* `app = await askAppChoice()` goes on when the promise is resolved
ResolveChoice(v) ==
  /\ choice' = Resolve(choice, v)
  /\ IF choice.state = "pending" /\ call = "showLocation"
     THEN FormatAndLaunch(v, lat, lng, title, address)
     ELSE /\ pc' = IF choice.state = "pending" THEN "done" ELSE pc
          /\ UNCHANGED <<app, result, launches, launch>>

\* askAppChoice after the loop, with the list the loop collected
AfterProbing(available) ==
  IF ~NeedsPrompt(available)
  THEN /\ ResolveChoice(FirstOrNull(available))
       /\ UNCHANGED prompts
  ELSE /\ prompts' =
            Append(prompts,
                   IF isIOS
                   THEN ActionSheet(promptArgs.title, promptArgs.message, available)
                   ELSE AlertDialog(promptArgs.title, promptArgs.message, available))
       /\ pc' = "prompting"
       /\ UNCHANGED <<choice, app, result, launches, launch>>

\* askAppChoice(ttl, message) up to the first await: the loop's first probe
AskAppChoice(ttl, message) ==
  /\ promptArgs' = [title |-> ttl, message |-> message]
  /\ choice' = Pending
  /\ availableApps' = <<>>
  /\ next' = 1
  /\ IsAppInstalled(Str(PrefixKeys[1]))
  /\ pc' = "probing"

(***************************************************************************)
(* The exported functions.                                                 *)
(***************************************************************************)
CallIsAppInstalled(x) ==
  /\ pc = "idle"
  /\ call' = "isAppInstalled"
  /\ id' = x
  /\ IsAppInstalled(x)
  /\ pc' = IF InPrefixes(x.v) THEN "probing" ELSE "done"
  /\ UNCHANGED <<isIOS, promptArgs, options, lat, lng, address, title, app,
                 availableApps, next, choice, result, probeTruthy, prompts,
                 nCallbacks, firstAction, launches, launch>>

CallAskAppChoice(texts) ==
  /\ pc = "idle"
  /\ call' = "askAppChoice"
  /\ AskAppChoice(texts.title, texts.message)
  /\ UNCHANGED <<isIOS, id, options, lat, lng, address, title, app, result,
                 probeTruthy, prompts, nCallbacks, firstAction, launches, launch>>

CallShowLocation(o) ==
  /\ pc = "idle"
  /\ call' = "showLocation"
  /\ options' = o
  /\ IF Validate(o) # NoException
     THEN /\ result' = Rejected(Validate(o))
          /\ pc' = "done"
          /\ UNCHANGED <<lat, lng, address, title, app, promptArgs, choice,
                         availableApps, next, installed, pendingProbes, probeLog,
                         launches, launch>>
     ELSE /\ lat' = parseFloat(Get(o.latitude))
          /\ lng' = parseFloat(Get(o.longitude))
          /\ address' = OrNull(o.address)
          /\ title' = OrNull(o.title)
          /\ IF Truthy(OrNull(o.app))
             THEN /\ FormatAndLaunch(OrNull(o.app), lat', lng', title', address')
                  /\ UNCHANGED <<promptArgs, choice, availableApps, next, installed,
                                 pendingProbes, probeLog>>
             ELSE /\ result' = Pending
                  /\ app' = OrNull(o.app)
                  /\ AskAppChoice(DefaultTitle, DefaultMessage)
                  /\ UNCHANGED <<launches, launch>>
  /\ UNCHANGED <<isIOS, id, probeTruthy, prompts, nCallbacks, firstAction>>

(***************************************************************************)
(* The host's events.                                                      *)
(***************************************************************************)
\* the promise of Linking.canOpenURL(url) settles
ProbeSettle(url, outcome) ==
  /\ url \in pendingProbes
  /\ outcome.kind = "resolve" /\ Truthy(outcome.value)
       => Cardinality(probeTruthy) < MaxInstalled
  /\ probeTruthy' =
       IF outcome.kind = "resolve" /\ Truthy(outcome.value)
       THEN probeTruthy \cup {url} ELSE probeTruthy
  /\ IF call = "isAppInstalled"
     THEN /\ installed' = Resolve(installed, IsInstalledResult(outcome))
          /\ pendingProbes' = pendingProbes \ {url}
          /\ pc' = "done"
          /\ UNCHANGED <<probeLog, availableApps, next, choice, prompts, app,
                         result, launches, launch>>
     ELSE LET avail == IsInstalledResult(outcome)
              available == IF Truthy(avail)
                           THEN Append(availableApps, PrefixKeys[next])
                           ELSE availableApps
          IN /\ availableApps' = available
             /\ next' = next + 1
             /\ IF next < Len(PrefixKeys)
                THEN /\ installed' = Pending
                     /\ pendingProbes' =
                          (pendingProbes \ {url}) \cup {Prefix(PrefixKeys[next + 1], isIOS)}
                     /\ probeLog' = Append(probeLog, Prefix(PrefixKeys[next + 1], isIOS))
                     /\ UNCHANGED <<pc, choice, prompts, app, result, launches, launch>>
                ELSE /\ installed' = Resolve(installed, avail)
                     /\ pendingProbes' = pendingProbes \ {url}
                     /\ UNCHANGED probeLog
                     /\ AfterProbing(available)
  /\ UNCHANGED <<isIOS, call, id, promptArgs, options, lat, lng, address, title,
                 nCallbacks, firstAction>>

\* a callback of the prompt resolves v
Callback(kind, index, v) ==
  /\ nCallbacks < MaxCallbacks
  /\ nCallbacks' = nCallbacks + 1
  /\ firstAction' =
       IF nCallbacks = 0 THEN [kind |-> kind, index |-> index] ELSE firstAction
  /\ ResolveChoice(v)
  /\ UNCHANGED <<isIOS, call, id, promptArgs, options, lat, lng, address, title,
                 availableApps, next, installed, pendingProbes, probeLog,
                 probeTruthy, prompts>>

\* the action sheet calls back with the index of the button pressed
SheetCallback(buttonIndex) ==
  /\ Len(prompts) > 0 /\ prompts[1].kind = "actionSheet"
  /\ buttonIndex \in 0..(Len(prompts[1].options) - 1)
  /\ Callback("press", buttonIndex,
              SheetChoice(buttonIndex, prompts[1].options, availableApps))

\* a button of the alert is pressed
AlertPress(button) ==
  /\ Len(prompts) > 0 /\ prompts[1].kind = "alert"
  /\ button \in 1..Len(prompts[1].options)
  /\ Callback("press", button - 1, AlertChoice(button, prompts[1].values))

\* the alert is dismissed: onDismiss: () => resolve(null)
AlertDismiss ==
  /\ Len(prompts) > 0 /\ prompts[1].kind = "alert" /\ prompts[1].onDismiss
  /\ Callback("dismiss", 0, Null)

\* the promise of Linking.openURL(url) settles
LaunchSettle(outcome) ==
  /\ launch.state = "pending"
  /\ launch' = Settled(outcome)
  /\ result' = LaunchResult(Settled(outcome))
  /\ pc' = "done"
  /\ UNCHANGED <<isIOS, call, id, promptArgs, options, lat, lng, address, title, app,
                 availableApps, next, installed, choice, pendingProbes, probeLog,
                 probeTruthy, prompts, nCallbacks, firstAction, launches>>

Next ==
  \/ \E x \in Ids : CallIsAppInstalled(x)
  \/ \E texts \in PromptTexts : CallAskAppChoice(texts)
  \/ \E o \in Requests : CallShowLocation(o)
  \/ \E url \in pendingProbes, outcome \in ProbeOutcomes : ProbeSettle(url, outcome)
  \/ \E buttonIndex \in 0..Len(apps) : SheetCallback(buttonIndex)
  \/ \E button \in 1..(Len(apps) + 1) : AlertPress(button)
  \/ AlertDismiss
  \/ \E outcome \in LaunchOutcomes : LaunchSettle(outcome)

Spec == Init /\ [][Next]_vars

(***************************************************************************)
(* The vocabulary of the specification, used to state its properties.      *)
(***************************************************************************)
\* x is one of the ten registered provider ids
Registered(x) == x.t = "string" /\ x.v \in Range(apps)

\* the providers whose probe of this run resolved truthy, in registry order
Available ==
  SelectSeq(apps, LAMBDA a : Str(OwnPrefix(a, isIOS)) \in probeTruthy)

\* one invocation of askAppChoice is in progress or over, and its probing is over
Probed == choice.state # "none" /\ next > Len(apps)

\* a field is provided: present and not empty (null, undefined, the empty
\* string and the other values that count as false are empty)
Provided(f) == Has(f) /\ Truthy(f)

\* the number of the first rule of section 4.5 the request violates, 0 when none
FirstViolated(o) ==
  IF o.t # "object" THEN 1
  ELSE IF ~(Has(o.latitude) /\ Has(o.longitude)) THEN 2
  ELSE IF Provided(o.address) /\ o.address.t # "string" THEN 3
  ELSE IF Provided(o.title) /\ o.title.t # "string" THEN 4
  ELSE IF Provided(o.app) /\ ~Registered(o.app) THEN 5
  ELSE 0

Reason(rule) ==
  CASE rule = 1 -> MsgOptions
    [] rule = 2 -> MsgLatLng
    [] rule = 3 -> MsgAddress
    [] rule = 4 -> MsgTitle
    [] rule = 5 -> MsgApp

\* showLocation was called with a request that passes validation
ValidRequest == call = "showLocation" /\ FirstViolated(options) = 0

\* the provider of a valid request is decided, and which it is: the explicit
\* one, else the one askAppChoice resolved
ProviderDecided == ValidRequest /\ (Provided(options.app) \/ choice.state = "resolved")
Provider == IF Provided(options.app) THEN options.app ELSE choice.value

\* what the first user action on a prompt over the providers list chooses
Chosen(action, list) ==
  IF action.kind = "press" /\ action.index < Len(list)
  THEN Str(list[action.index + 1]) ELSE Null

\* the text of a provided field, "" when it is not provided
Text(f) == IF Provided(f) THEN f.v ELSE ""

\* the URL templates of section 4.4 for provider p and request o
Template(p, o, ios) ==
  LET la == parseFloat(Get(o.latitude)).v
      ln == parseFloat(Get(o.longitude)).v
      ttl == Text(o.title)
      addr == Text(o.address)
      prefix == OwnPrefix(p, ios)
      enc(x) == encodeURIComponent(x)
  IN CASE p = "apple-maps" ->
            prefix \o "?ll=" \o la \o "," \o ln
              \o "&q=" \o enc(IF ttl # "" THEN ttl ELSE "Location")
              \o "&address=" \o enc(addr)
       [] p = "google-maps" /\ ios ->
            prefix \o "?api=1&ll=" \o la \o "," \o ln
              \o "&q=" \o enc(IF addr # "" THEN addr ELSE IF ttl # "" THEN ttl ELSE "Location")
       [] p = "google-maps" /\ ~ios -> prefix \o "?q=" \o la \o "," \o ln
       [] p = "citymapper" ->
            prefix \o "directions?endcoord=" \o la \o "," \o ln
              \o (IF ttl # "" THEN "&endname=" \o enc(ttl) ELSE "")
       [] p = "uber" ->
            prefix \o "?action=setPickup&pickup=my_location&dropoff[latitude]=" \o la
              \o "&dropoff[longitude]" \o ln
              \o (IF ttl # "" THEN "&dropoff[nickname]=" \o enc(ttl) ELSE "")
       [] p = "lyft" ->
            prefix \o "ridetype?id=lyft&destination[latitude]=" \o la
              \o "&destination[longitude]=" \o ln
       [] p = "transit" -> prefix \o "directions?to=" \o la \o "," \o ln
       [] p = "waze" -> prefix \o "?ll=" \o la \o "," \o ln \o "&navigate=yes"
       [] p = "yandex" -> prefix \o "build_route_on_map?lat_to=" \o la \o "&lon_to=" \o ln
       [] p = "moovit" ->
            prefix \o "directions?dest_lat=" \o la \o "&dest_lon" \o ln
              \o (IF ttl # "" THEN "&dest_name=" \o enc(ttl) ELSE "")

(***************************************************************************)
(* The properties.                                                         *)
(***************************************************************************)

\* C1: isAppInstalled(id) never fails, for any id: its promise is never
\* rejected; for an id that is not a registered provider it resolves false
\* and the capability probe is not called; for a registered id it resolves
\* the boolean value of the probe's result, false when the probe rejects.
C1_IsAppInstalledNeverFails ==
  call = "isAppInstalled" =>
    /\ installed.state # "rejected"
    /\ ~Registered(id) => installed = Resolved(Bool(FALSE)) /\ probeLog = <<>>
    /\ Registered(id) /\ pc = "done" =>
         installed = Resolved(Bool(Str(OwnPrefix(id.v, isIOS)) \in probeTruthy))

\* C2: when the probing of askAppChoice ends with fewer than two providers
\* available, no prompt is presented and the choice is resolved: null with no
\* provider available, the available one with exactly one.
C2_FewerThanTwoNoPrompt ==
  Probed /\ Len(Available) < 2 =>
    /\ prompts = <<>>
    /\ nCallbacks = 0
    /\ choice = Resolved(IF Len(Available) = 1 THEN Str(Available[1]) ELSE Null)

C2_Witness ==
  /\ call = "askAppChoice" /\ Probed /\ Len(Available) = 1
  /\ choice = Resolved(Str(Available[1])) /\ prompts = <<>>

\* C3: when the probing of askAppChoice ends with two or more providers
\* available, exactly one prompt is presented (an action sheet on iOS, an
\* alert elsewhere) whose options are the titles of the available providers
\* in registry order and then Cancel; the choice is pending until the user
\* acts, and the first user action resolves it: option k resolves the
\* provider at position k, Cancel resolves null, dismissing resolves null.
C3_PromptResolvesChoice ==
  Probed /\ Len(Available) >= 2 =>
    /\ Len(prompts) = 1
    /\ prompts[1].kind = IF isIOS THEN "actionSheet" ELSE "alert"
    /\ prompts[1].options = Append([i \in 1..Len(Available) |-> titles(Available[i])], "Cancel")
    /\ prompts[1].title = promptArgs.title /\ prompts[1].message = promptArgs.message
    /\ ~isIOS => prompts[1].onDismiss
    /\ choice = IF firstAction.kind = "none" THEN Pending
                ELSE Resolved(Chosen(firstAction, Available))

C3_Witness ==
  /\ Probed /\ Len(Available) = 3
  /\ firstAction = [kind |-> "press", index |-> 1]
  /\ choice = Resolved(Str(Available[2]))

\* C4: a showLocation call whose request fails validation is rejected with
\* the validation error and makes no capability probe, no prompt and no
\* launch call.
C4_InvalidRequestDoesNothing ==
  call = "showLocation" /\ FirstViolated(options) # 0 =>
    /\ result.state = "rejected" /\ result.value.t = "MapsException"
    /\ probeLog = <<>> /\ pendingProbes = {}
    /\ prompts = <<>>
    /\ launches = <<>>
    /\ choice.state = "none" /\ pc = "done"

C4_Witness ==
  /\ call = "showLocation" /\ options.t = "object"
  /\ options.app \in {Str("bogus-app"), Str("toString")}
  /\ Has(options.latitude) /\ Has(options.longitude)
  /\ result.state = "rejected" /\ probeLog = <<>>

\* C5: showLocation makes at most one launch call, and when the provider it
\* resolved is null or navigon it makes none and resolves with undefined.
C5_AtMostOneLaunch ==
  /\ Len(launches) <= 1
  /\ ProviderDecided /\ Provider \in {Null, Str("navigon")} =>
       launches = <<>> /\ result = Resolved(Undefined)

C5_Witness ==
  /\ ProviderDecided /\ ~Provided(options.app) /\ Provider = Str("navigon")
  /\ firstAction.kind = "press"
  /\ launches = <<>> /\ result = Resolved(Undefined)

\* C6: the URL showLocation passes to the launch call is the template of
\* section 4.4 for the resolved provider, the platform and the request.
C6_UrlIsTemplate ==
  call = "showLocation" /\ launches # <<>> =>
    /\ ProviderDecided /\ Registered(Provider) /\ Provider # Str("navigon")
    /\ launches[1] = Str(Template(Provider.v, options, isIOS))

C6_Witness ==
  /\ ProviderDecided /\ Provider = Str("uber") /\ Provided(options.app)
  /\ Provided(options.title) /\ lat = Num("1.5")
  /\ launches = <<Str(Template("uber", options, isIOS))>>

\* C7: once a URL is launched, showLocation's promise is pending while the
\* launch call's promise is, is rejected with the very error the launch call
\* rejects with, and is resolved when the launch call resolves.
C7_LaunchOutcomeIsResult ==
  call = "showLocation" /\ launches # <<>> =>
    /\ result.state = launch.state
    /\ launch.state = "rejected" => result.value = launch.value

C7_Witness ==
  /\ call = "showLocation" /\ launches # <<>>
  /\ launch.state = "rejected" /\ result = Rejected(launch.value)

\* C8: validation applies the five rules in order and the first violated
\* one gives the error; a request violating none is accepted, whatever its
\* coordinates and whether address, title and app are absent or empty.
C8_FirstViolatedRuleWins ==
  call = "showLocation" =>
    IF FirstViolated(options) # 0
    THEN result = Rejected(MapsException(Reason(FirstViolated(options))))
    ELSE ~(result.state = "rejected" /\ result.value.t = "MapsException")

C8_Witness ==
  /\ call = "showLocation" /\ options.t = "object"
  /\ Has(options.latitude) /\ Has(options.longitude)
  /\ options.address = Num("5") /\ options.title = Num("5")
  /\ ~Registered(options.app)
  /\ result = Rejected(MapsException(MsgAddress))

\* C9: in one askAppChoice invocation the probes called so far are those of
\* the first providers of the registry, each once and in registry order; at
\* most one probe is unsettled, the last one called; the choice is not
\* resolved and no prompt is shown before all ten have settled; and the
\* collected list is the registry-order subsequence of the providers whose
\* probe resolved truthy.
C9_ProbesOnceInOrder ==
  choice.state # "none" =>
    /\ Len(probeLog) <= Len(apps)
    /\ probeLog = [i \in 1..Len(probeLog) |-> Str(OwnPrefix(apps[i], isIOS))]
    /\ pendingProbes \subseteq {probeLog[Len(probeLog)]}
    /\ pendingProbes = {} <=> Len(probeLog) = Len(apps) /\ next > Len(apps)
    /\ pendingProbes # {} => choice.state = "pending" /\ prompts = <<>>
    /\ availableApps = Available

C9_Witness ==
  /\ call = "askAppChoice" /\ Probed /\ Len(probeLog) = Len(apps)
  /\ pendingProbes = {} /\ Len(availableApps) = 2
  /\ availableApps = Available

\* C10: once askAppChoice's promise is resolved, no later step (a further
\* callback of the prompt included) changes its value, the provider
\* showLocation took from it, or the launch calls made.
C10_ChoiceDecidedOnce ==
  [][choice.state = "resolved" =>
       choice' = choice /\ app' = app /\ launches' = launches]_vars

C10_Witness ==
  /\ call = "showLocation" /\ nCallbacks = 2
  /\ choice = Resolved(Chosen(firstAction, Available)) /\ app = choice.value
  /\ Len(launches) = 1

====
